---- MODULE Spec2Model ----
\* T5EncoderSubgraph (contrib_ops/cpu/transformers/subgraph_t5_encoder.cc):
\* Validate checks a subgraph signature against the fixed T5 encoder contract
\* and saves the model parameters; CreateInitialFeeds builds the feeds of the
\* first subgraph run through two device hooks.
EXTENDS Integers, Sequences, FiniteSets, TLC

\* ---------------------------------------------------------------- bounds

\* Longest list of subgraph inputs a graph declares.
MaxInputs == 4
\* Longest list of subgraph outputs a graph declares (6, 10, 14 = one, two,
\* three layers).
MaxOutputs == 14
\* How many fields of a well-formed signature a graph changes at once.
MaxOverrides == 2
\* Longest list of implicit inputs of the enclosing node.
MaxImplicit == 2

\* ---------------------------------------------------------------- values

\* C++ integer remainder and division truncate toward zero.
CRem(a, b) == IF a >= 0 THEN a % b ELSE -((-a) % b)

CDiv(a, b) == IF a >= 0 THEN a \div b ELSE -((-a) \div b)

\* A TensorShapeProto pointer: absent (nullptr) or a list of dimensions,
\* a dimension without a value (symbolic) written -1.
NoShape == [present |-> FALSE, dims |-> <<>>]

Shape(d) == [present |-> TRUE, dims |-> d]

\* A NodeArg: Name(), TypeAsProto()->tensor_type().elem_type(), Shape().
NodeArg(n, t, s) == [name |-> n, elem_type |-> t, shape |-> s]

InputNames == <<"encoder_input_ids", "encoder_attention_mask", "decoder_input_ids">>

OutputNames == <<"logits", "encoder_hidden_states", "present_key_self_0", "present_value_self_0">>

\* A past state of 2 heads of size 4, and logits over a trailing dimension 8.
PastShape == Shape(<<-1, 2, -1, 4>>)

LogitsShape == Shape(<<-1, -1, 8>>)

\* The well-formed signature of the given lengths.
CanonicalInput(i) == NodeArg(IF i < 3 THEN InputNames[i + 1] ELSE "extra_input", "INT32", Shape(<<-1, -1>>))

CanonicalOutput(j) ==
    IF j = 0 THEN NodeArg(OutputNames[1], "FLOAT", LogitsShape)
    ELSE IF j = 1 THEN NodeArg(OutputNames[2], "FLOAT", Shape(<<-1, -1, 8>>))
    ELSE NodeArg(IF j < 4 THEN OutputNames[j + 1] ELSE "present_cache", "FLOAT", PastShape)

\* The fields of a signature that a graph may declare differently, and the
\* values it may declare instead.
Override(slot, pos, alt) == [slot |-> slot, pos |-> pos, alt |-> alt]

Overrides ==
    {Override("in_name", i, a) : i \in 0..2, a \in 1..2}
    \cup {Override("out_name", j, a) : j \in 0..3, a \in 1..2}
    \cup {Override("in_type", i, 1) : i \in 0..2}
    \cup {Override("out_type", 0, a) : a \in 1..2}
    \cup {Override("out_shape", 2, a) : a \in 1..4}
    \cup {Override("out_shape", 0, a) : a \in 1..3}

AltName(slot, pos, alt) ==
    IF alt = 1 THEN "unnamed"
    ELSE IF slot = "in_name" THEN InputNames[((pos + 1) % 3) + 1]
    ELSE OutputNames[((pos + 1) % 4) + 1]

AltInType(alt) == "INT64"

AltOutType(alt) == IF alt = 1 THEN "FLOAT16" ELSE "INT32"

AltShape(pos, alt) ==
    IF pos = 2
    THEN CASE alt = 1 -> NoShape
           [] alt = 2 -> Shape(<<2, -1, 2, -1, 4>>)
           [] alt = 3 -> Shape(<<-1, -1, -1, 4>>)
           [] OTHER   -> Shape(<<-1, 2, -1, -1>>)
    ELSE CASE alt = 1 -> NoShape
           [] alt = 2 -> Shape(<<-1, -1, -1>>)
           [] OTHER   -> Shape(<<-1, -1, 6>>)

RECURSIVE UpTo(_, _)
UpTo(S, k) ==
    IF k = 0 THEN {{}}
    ELSE LET P == UpTo(S, k - 1) IN P \cup {p \cup {x} : p \in P, x \in S}

\* No two overrides of one set change the same field.
Consistent(ov) == \A a \in ov, b \in ov : (a.slot = b.slot /\ a.pos = b.pos) => a = b

Pick(ov, slot, pos) == {o \in ov : o.slot = slot /\ o.pos = pos}

AltOf(ov, slot, pos) == (CHOOSE o \in Pick(ov, slot, pos) : TRUE).alt

GraphInput(ov, i) ==
    LET c == CanonicalInput(i) IN
    NodeArg(IF Pick(ov, "in_name", i) # {} THEN AltName("in_name", i, AltOf(ov, "in_name", i)) ELSE c.name,
            IF Pick(ov, "in_type", i) # {} THEN AltInType(AltOf(ov, "in_type", i)) ELSE c.elem_type,
            c.shape)

GraphOutput(ov, j) ==
    LET c == CanonicalOutput(j) IN
    NodeArg(IF Pick(ov, "out_name", j) # {} THEN AltName("out_name", j, AltOf(ov, "out_name", j)) ELSE c.name,
            IF Pick(ov, "out_type", j) # {} THEN AltOutType(AltOf(ov, "out_type", j)) ELSE c.elem_type,
            IF Pick(ov, "out_shape", j) # {} THEN AltShape(j, AltOf(ov, "out_shape", j)) ELSE c.shape)

GraphInputs(n, ov) == [k \in 1..n |-> GraphInput(ov, k - 1)]

GraphOutputs(n, ov) == [k \in 1..n |-> GraphOutput(ov, k - 1)]

\* Whether every override of the set touches a descriptor the graph has.
Applies(ov, nin, nout) ==
    \A o \in ov : IF o.slot \in {"in_name", "in_type"} THEN o.pos < nin ELSE o.pos < nout

\* ---------------------------------------------------------------- Status

\* common::Status: OK, or FAIL with the message the macro builds: its fixed
\* text and the value streamed after it (a count or a name).
StatusOK == [code |-> "OK", msg |-> "", got_count |-> -1, got_name |-> ""]

MakeFail(msg, count, name) == [code |-> "FAIL", msg |-> msg, got_count |-> count, got_name |-> name]

\* ---------------------------------------------------------------- state

VARIABLES
    subgraph_inputs,        \* subgraph.GetInputs(): the declared input NodeArgs
    subgraph_outputs,       \* subgraph.GetOutputs(): the declared output NodeArgs
    num_subgraph_inputs,    \* Subgraph::num_subgraph_inputs
    num_subgraph_outputs,   \* Subgraph::num_subgraph_outputs
    num_layers,             \* Subgraph::num_layers
    num_heads,              \* Subgraph::num_heads
    head_size,              \* Subgraph::head_size
    hidden_size,            \* the dimension GetParameters reads off the logits
    is_output_float16_,     \* Subgraph::is_output_float16_
    session_state_,         \* Subgraph::session_state_: "null" until Setup
    validate_call,          \* the Validate call made on this object, if any
    feeds,                  \* the caller's std::vector<OrtValue>& feeds
    sequence_lengths,       \* the caller's gsl::span<int32_t>& sequence_lengths
    create_call             \* the last CreateInitialFeeds call, if any

vars == <<subgraph_inputs, subgraph_outputs, num_subgraph_inputs, num_subgraph_outputs,
          num_layers, num_heads, head_size, hidden_size,
          is_output_float16_, session_state_, validate_call, feeds, sequence_lengths,
          create_call>>

\* The model parameters the object holds now.
Parameters ==
    [num_layers |-> num_layers, num_heads |-> num_heads, head_size |-> head_size,
     hidden_size |-> hidden_size, is_output_float16_ |-> is_output_float16_]

\* ---------------------------------------------------------------- Validate

\* vector::operator[]: the element, or whatever lies past the end.
At(list, i, wild) == IF i < Len(list) THEN list[i + 1] ELSE wild

\* What an out-of-range read may yield.
WildNodeArgs == {NodeArg("logits", "FLOAT", NoShape), NodeArg("encoder_input_ids", "INT32", PastShape)}

\* Shape-derived parameters: the past state is (batch, num_heads, sequence,
\* head_size) with num_heads and head_size known; the logits end in a known
\* dimension that num_heads * head_size must equal.
GetParameters(past_shape, logits_shape) ==
    LET bad == [status |-> MakeFail("ShapeInferenceError", -1, ""), num_heads |-> 0, head_size |-> 0, hidden_size |-> 0]
    IN
    IF ~past_shape.present \/ ~logits_shape.present THEN bad
    ELSE IF Len(past_shape.dims) # 4 THEN bad
    ELSE IF past_shape.dims[2] <= 0 \/ past_shape.dims[4] <= 0 THEN bad
    ELSE IF Len(logits_shape.dims) # 3 THEN bad
    ELSE IF logits_shape.dims[3] <= 0 THEN bad
    ELSE IF past_shape.dims[2] * past_shape.dims[4] # logits_shape.dims[3] THEN bad
    ELSE [status |-> StatusOK, num_heads |-> past_shape.dims[2], head_size |-> past_shape.dims[4],
          hidden_size |-> logits_shape.dims[3]]

\* The conditions of the ORT_RETURN_IF checks.
\* Slip: "at most 3 inputs".
InputCountWrong_AtMost(n) == n > 3

InputCountWrong(n) == n # 3

OutputCountTooSmall(n) == n < 6

\* Slip: two cache tensors per layer instead of four.
OutputCountNotLayered_Two(size) == CRem(size - 2, 2) # 0

OutputCountNotLayered(size) == CRem(size - 2, 4) # 0

NameDiffers(arg, expected) == arg.name # expected

NotInt32(elem_type) == elem_type # "INT32"

NotFloatOrFloat16(output_type) == output_type # "FLOAT" /\ output_type # "FLOAT16"

\* Slip: the flag compares with the wrong enumerator.
IsFloat16_Float(output_type) == output_type = "FLOAT"

IsFloat16(output_type) == output_type = "FLOAT16"

\* Slip: two cache tensors per layer instead of four.
NumLayers_Two(size) == CDiv(size - 2, 2)

NumLayers(size) == CDiv(size - 2, 4)

\* One statement of Validate.
Stmt(op, io, pos, expected, msg) == [op |-> op, io |-> io, pos |-> pos, expected |-> expected, msg |-> msg]

CheckInputCount == Stmt("input_count", "input", -1, "", "expect 3 inputs, got:")

CheckOutputMin == Stmt("output_min", "output", -1, "", "expect >=6 outputs, got:")

CheckOutputLayers == Stmt("output_layers", "output", -1, "", "number of outputs expected to be 2 + 4 * layers, got:")

CheckInputName0 == Stmt("name", "input", 0, "encoder_input_ids", "subgraph input 0 shall be named as encoder_input_ids, got: ")

CheckInputName1 == Stmt("name", "input", 1, "encoder_attention_mask", "subgraph input 1 shall be named as encoder_attention_mask, got: ")

CheckInputName2 == Stmt("name", "input", 2, "decoder_input_ids", "subgraph input 2 shall be named as decoder_input_ids, got: ")

CheckOutputName0 == Stmt("name", "output", 0, "logits", "subgraph output 0 shall be named as logits, got: ")

CheckOutputName1 == Stmt("name", "output", 1, "encoder_hidden_states", "subgraph output 1 shall be named as encoder_hidden_states, got: ")

CheckOutputName2 == Stmt("name", "output", 2, "present_key_self_0", "subgraph output 2 shall be named as present_key_self_0, got: ")

CheckOutputName3 == Stmt("name", "output", 3, "present_value_self_0", "subgraph output 3 shall be named as present_value_self_0, got: ")

SaveParameters == Stmt("get_parameters", "output", -1, "", "")

SetNumLayers == Stmt("set_num_layers", "output", -1, "", "")

CheckInputType0 == Stmt("input_type", "input", 0, "INT32", "subgraph input 0 (input_ids) shall have int32 type")

CheckInputType1 == Stmt("input_type", "input", 1, "INT32", "subgraph input 1 (position_ids) shall have int32 type")

CheckInputType2 == Stmt("input_type", "input", 2, "INT32", "subgraph input 2 (position_ids) shall have int32 type")

CheckOutputType == Stmt("output_type", "output", 0, "", "subgraph output 0 (logits) shall be float or float16 data type")

SetIsOutputFloat16 == Stmt("set_is_output_float16", "output", -1, "", "")

\* Slip: num_layers is saved before GetParameters has succeeded.
ValidateBody_LayersFirst ==
    <<CheckInputCount, CheckOutputMin, CheckOutputLayers,
      CheckInputName0, CheckInputName1, CheckInputName2,
      CheckOutputName0, CheckOutputName1, CheckOutputName2, CheckOutputName3,
      SetNumLayers, SaveParameters,
      CheckInputType0, CheckInputType1, CheckInputType2,
      CheckOutputType, SetIsOutputFloat16>>

\* Slip: the element types are checked before the parameters are saved.
ValidateBody_TypesFirst ==
    <<CheckInputCount, CheckOutputMin, CheckOutputLayers,
      CheckInputName0, CheckInputName1, CheckInputName2,
      CheckOutputName0, CheckOutputName1, CheckOutputName2, CheckOutputName3,
      CheckInputType0, CheckInputType1, CheckInputType2, CheckOutputType,
      SaveParameters, SetNumLayers, SetIsOutputFloat16>>

\* The statements of Validate in program order.
ValidateBody ==
    <<CheckInputCount, CheckOutputMin, CheckOutputLayers,
      CheckInputName0, CheckInputName1, CheckInputName2,
      CheckOutputName0, CheckOutputName1, CheckOutputName2, CheckOutputName3,
      SaveParameters, SetNumLayers,
      CheckInputType0, CheckInputType1, CheckInputType2,
      CheckOutputType, SetIsOutputFloat16>>

\* Slip: the message streams the expected name again.
NameFailure_Expected(stmt, arg) == MakeFail(stmt.msg, -1, stmt.expected)

\* The status a failed name check returns: the text and the name found.
NameFailure(stmt, arg) == MakeFail(stmt.msg, -1, arg.name)

\* The frame of a running Validate: the object's parameters, the local
\* output_type, the elements read so far and, once it returned, the Status.
Enter ==
    [returned |-> FALSE, status |-> StatusOK, output_type |-> "UNSET", reads |-> {},
     num_layers |-> num_layers, num_heads |-> num_heads, head_size |-> head_size,
     hidden_size |-> hidden_size, is_output_float16_ |-> is_output_float16_]

Return(f, st) == [f EXCEPT !.returned = TRUE, !.status = st]

Read(f, io, pos) == [f EXCEPT !.reads = @ \cup {<<io, pos>>}]

\* The effect of one statement on the frame.
Exec(stmt, f, inputs, outputs, wild) ==
    LET list == IF stmt.io = "input" THEN inputs ELSE outputs
        arg == At(list, stmt.pos, wild)
    IN
    CASE stmt.op = "input_count" ->
           IF InputCountWrong(num_subgraph_inputs)
           THEN Return(f, MakeFail(stmt.msg, num_subgraph_inputs, "")) ELSE f
      [] stmt.op = "output_min" ->
           IF OutputCountTooSmall(num_subgraph_outputs)
           THEN Return(f, MakeFail(stmt.msg, num_subgraph_outputs, "")) ELSE f
      [] stmt.op = "output_layers" ->
           IF OutputCountNotLayered(Len(outputs))
           THEN Return(f, MakeFail(stmt.msg, num_subgraph_outputs, "")) ELSE f
      [] stmt.op = "name" ->
           IF NameDiffers(arg, stmt.expected)
           THEN Return(Read(f, stmt.io, stmt.pos), NameFailure(stmt, arg))
           ELSE Read(f, stmt.io, stmt.pos)
      [] stmt.op = "get_parameters" ->
           LET past_shape == At(outputs, 2, wild).shape
               logits_shape == At(outputs, 0, wild).shape
               p == GetParameters(past_shape, logits_shape)
               g == Read(Read(f, "output", 2), "output", 0)
           IN IF p.status.code # "OK" THEN Return(g, p.status)
              ELSE [g EXCEPT !.num_heads = p.num_heads, !.head_size = p.head_size,
                             !.hidden_size = p.hidden_size]
      [] stmt.op = "set_num_layers" ->
           [f EXCEPT !.num_layers = NumLayers(Len(outputs))]
      [] stmt.op = "input_type" ->
           IF NotInt32(arg.elem_type)
           THEN Return(Read(f, stmt.io, stmt.pos), MakeFail(stmt.msg, -1, ""))
           ELSE Read(f, stmt.io, stmt.pos)
      [] stmt.op = "output_type" ->
           LET g == [Read(f, "output", 0) EXCEPT !.output_type = arg.elem_type]
           IN IF NotFloatOrFloat16(g.output_type) THEN Return(g, MakeFail(stmt.msg, -1, "")) ELSE g
      [] OTHER ->
           [f EXCEPT !.is_output_float16_ = IsFloat16(f.output_type)]

RECURSIVE Run(_, _, _, _, _)
Run(stmts, f, inputs, outputs, wild) ==
    IF stmts = <<>> THEN Return(f, StatusOK)
    ELSE LET g == Exec(Head(stmts), f, inputs, outputs, wild)
         IN IF g.returned THEN g ELSE Run(Tail(stmts), g, inputs, outputs, wild)

\* Status T5EncoderSubgraph::Validate(subgraph_inputs, subgraph_outputs).
Validate(inputs, outputs, wild) == Run(ValidateBody, Enter, inputs, outputs, wild)

\* ---------------------------------------------------------------- CreateInitialFeeds

\* An OrtValue: what it holds and, for a tensor of token rows, the number of
\* tokens of each row.
OrtValue(holds, rows) == [holds |-> holds, rows |-> rows]

EmptyOrtValue == OrtValue("empty", <<>>)

\* The Status a failing hook returns.
HookStatus(error) == MakeFail(error, -1, "")

\* Each batch row repeated num_beams times, beams of one row adjacent.
RECURSIVE Expand(_, _)
Expand(rows, num_beams) ==
    IF rows = <<>> THEN <<>>
    ELSE [b \in 1..num_beams |-> Head(rows)] \o Expand(Tail(rows), num_beams)

\* The Encoder-Input Expansion hook, BeamSearchDeviceHelper::CreateEncoderInputsFunc.
\* It fills sequence_lengths and the three expanded values, or fails with the
\* error hook.create names, having written sequence_lengths or not.
create_encoder_inputs_func(encoder_input_ids, num_beams, pad_token_id, start_token_id, lengths, allocator, hook) ==
    LET expanded == Expand(encoder_input_ids.rows, num_beams) IN
    IF hook.create # "OK"
    THEN [status |-> HookStatus(hook.create),
          sequence_lengths |-> IF hook.touched THEN expanded ELSE lengths,
          expanded_encoder_input_ids |-> EmptyOrtValue,
          expanded_encoder_attention_mask |-> EmptyOrtValue,
          expanded_decoder_input_ids |-> EmptyOrtValue]
    ELSE [status |-> StatusOK,
          sequence_lengths |-> expanded,
          expanded_encoder_input_ids |-> OrtValue("encoder_input_ids", expanded),
          expanded_encoder_attention_mask |-> OrtValue("encoder_attention_mask", expanded),
          expanded_decoder_input_ids |-> OrtValue("decoder_input_ids", [b \in 1..Len(expanded) |-> 1])]

\* The Feed Assembly hook, BeamSearchDeviceHelper::AddToFeedsFunc: it puts its
\* three values into the feeds in the order given, or fails with the error
\* hook.add names after putting the first hook.placed of them.
add_to_feeds_func(provider, input_ids, attention_mask, decoder_input_ids, fs, hook) ==
    LET three == <<input_ids, attention_mask, decoder_input_ids>> IN
    IF hook.add # "OK"
    THEN [status |-> HookStatus(hook.add), feeds |-> fs \o SubSeq(three, 1, hook.placed)]
    ELSE [status |-> StatusOK, feeds |-> fs \o three]

\* Slip: the check is written with ORT_RETURN_IF and returns a Status.
EnforceFailure_Return(msg) == [outcome |-> "returned", status |-> MakeFail(msg, -1, "")]

\* ORT_ENFORCE on a false condition: an OnnxRuntimeException leaves the
\* function; no Status is returned.
EnforceFailure(msg) == [outcome |-> "thrown", status |-> MakeFail(msg, -1, "")]

\* Slip: the Status of the hook is dropped.
ReturnIfError_Ignored(status) == FALSE

\* ORT_RETURN_IF_ERROR: whether the Status makes the function return it.
ReturnIfError(status) == status.code # "OK"

\* Slip: the implicit inputs are pushed last to first.
RECURSIVE PushImplicitInputs_Reversed(_, _)
PushImplicitInputs_Reversed(fs, implicit_inputs) ==
    IF implicit_inputs = <<>> THEN fs
    ELSE Append(PushImplicitInputs_Reversed(fs, Tail(implicit_inputs)), Head(implicit_inputs))

\* for (const auto* entry : implicit_inputs) feeds.push_back(*entry);
RECURSIVE PushImplicitInputs(_, _)
PushImplicitInputs(fs, implicit_inputs) ==
    IF implicit_inputs = <<>> THEN fs
    ELSE PushImplicitInputs(Append(fs, Head(implicit_inputs)), Tail(implicit_inputs))

\* Status T5EncoderSubgraph::CreateInitialFeeds(...): req holds the arguments
\* (feeds and sequence_lengths as the caller passes them), hook what the two
\* hooks will do.  The result holds how the call ended, feeds and
\* sequence_lengths as it leaves them, and the hooks it invoked, in order.
CreateInitialFeeds(req, hook) ==
    IF session_state_ = "null"
    THEN LET e == EnforceFailure("Setup must be called before CreateInitialFeeds")
         IN [outcome |-> e.outcome, status |-> e.status, feeds |-> req.feeds,
             sequence_lengths |-> req.sequence_lengths, hook_calls |-> <<>>]
    ELSE
    LET cpu_alloactor == <<session_state_, req.encoder_input_ids.location>>
        c == create_encoder_inputs_func(req.encoder_input_ids, req.num_beams, req.pad_token_id,
                                        req.start_token_id, req.sequence_lengths, cpu_alloactor, hook)
    IN
    IF ReturnIfError(c.status)
    THEN [outcome |-> "returned", status |-> c.status, feeds |-> req.feeds,
          sequence_lengths |-> c.sequence_lengths, hook_calls |-> <<"create_encoder_inputs_func">>]
    ELSE
    LET a == add_to_feeds_func("provider", c.expanded_encoder_input_ids, c.expanded_encoder_attention_mask,
                               c.expanded_decoder_input_ids, req.feeds, hook)
        both == <<"create_encoder_inputs_func", "add_to_feeds_func">>
    IN
    IF ReturnIfError(a.status)
    THEN [outcome |-> "returned", status |-> a.status, feeds |-> a.feeds,
          sequence_lengths |-> c.sequence_lengths, hook_calls |-> both]
    ELSE [outcome |-> "returned", status |-> StatusOK,
          feeds |-> PushImplicitInputs(a.feeds, req.implicit_inputs),
          sequence_lengths |-> c.sequence_lengths, hook_calls |-> both]

\* ---------------------------------------------------------------- requests

\* The tensors a request brings.
EncoderInputIds == {[location |-> "Cpu", rows |-> <<1>>], [location |-> "Cpu", rows |-> <<2, 1>>]}

ImplicitValues == {OrtValue("implicit_a", <<>>), OrtValue("implicit_b", <<>>)}

RECURSIVE SeqsUpTo(_, _)
SeqsUpTo(S, n) ==
    IF n = 0 THEN {<<>>}
    ELSE LET P == SeqsUpTo(S, n - 1) IN P \cup {Append(q, x) : q \in P, x \in S}

NoHook == [create |-> "OK", touched |-> TRUE, add |-> "OK", placed |-> 3]

HookErrors == {"AllocationError", "DeviceMismatchError"}

Hooks ==
    {NoHook}
    \cup {[create |-> e, touched |-> t, add |-> "OK", placed |-> 3] : e \in HookErrors, t \in BOOLEAN}
    \cup {[create |-> "OK", touched |-> TRUE, add |-> e, placed |-> k] : e \in HookErrors, k \in 0..2}

\* What the caller passes: fresh feeds and a sequence_lengths buffer of
\* batch_size * num_beams entries.
Request(ids, implicit_inputs, num_beams) ==
    [encoder_input_ids |-> ids, implicit_inputs |-> implicit_inputs, num_beams |-> num_beams,
     pad_token_id |-> 0, start_token_id |-> 0,
     sequence_lengths |-> [b \in 1..(Len(ids.rows) * num_beams) |-> 0],
     feeds |-> <<>>]

NoRequest == Request([location |-> "Cpu", rows |-> <<>>], <<>>, 1)

\* ---------------------------------------------------------------- behaviour

\* Subgraph::Subgraph: the counts are those of the subgraph's declared inputs
\* and outputs; the parameters are unset and no session state is bound.
Construct(inputs, outputs) ==
    /\ subgraph_inputs = inputs
    /\ subgraph_outputs = outputs
    /\ num_subgraph_inputs = Len(inputs)
    /\ num_subgraph_outputs = Len(outputs)
    /\ num_layers = 0
    /\ num_heads = 0
    /\ head_size = 0
    /\ hidden_size = 0
    /\ is_output_float16_ = FALSE
    /\ session_state_ = "null"

Init ==
    /\ \E ov \in {o \in UpTo(Overrides, MaxOverrides) : Consistent(o)} :
         \E n \in 0..MaxInputs, m \in 0..MaxOutputs :
            /\ Applies(ov, n, m)
            /\ Construct(GraphInputs(n, ov), GraphOutputs(m, ov))
    /\ validate_call = [called |-> FALSE, status |-> StatusOK, reads |-> {}, before |-> Parameters]
    /\ feeds = <<>>
    /\ sequence_lengths = <<>>
    /\ create_call = [called |-> FALSE, request |-> NoRequest, hook |-> NoHook,
                      session_state |-> "null", outcome |-> "none",
                      status |-> StatusOK, hook_calls |-> <<>>]

\* Model loading validates the subgraph: Validate(subgraph.GetInputs(),
\* subgraph.GetOutputs()), once per object.
CallValidate ==
    /\ ~validate_call.called
    /\ \E wild \in WildNodeArgs :
         LET r == Validate(subgraph_inputs, subgraph_outputs, wild) IN
         /\ num_layers' = r.num_layers
         /\ num_heads' = r.num_heads
         /\ head_size' = r.head_size
         /\ hidden_size' = r.hidden_size
         /\ is_output_float16_' = r.is_output_float16_
         /\ validate_call' = [called |-> TRUE, status |-> r.status, reads |-> r.reads, before |-> Parameters]
    /\ UNCHANGED <<subgraph_inputs, subgraph_outputs, num_subgraph_inputs, num_subgraph_outputs,
                   session_state_, feeds, sequence_lengths, create_call>>

\* A model whose subgraph failed validation is not loaded.
Validated == validate_call.called /\ validate_call.status.code = "OK"

\* Subgraph::Setup binds the session state of a validated subgraph.
Setup ==
    /\ Validated
    /\ session_state_ = "null"
    /\ session_state_' = "bound"
    /\ UNCHANGED <<subgraph_inputs, subgraph_outputs, num_subgraph_inputs, num_subgraph_outputs,
                   num_layers, num_heads, head_size, hidden_size, is_output_float16_,
                   validate_call, feeds, sequence_lengths, create_call>>

\* A generation request calls CreateInitialFeeds on the loaded subgraph,
\* before or after Setup; the model follows one request per object.
CallCreateInitialFeeds ==
    /\ Validated
    /\ ~create_call.called
    /\ \E ids \in EncoderInputIds, implicit_inputs \in SeqsUpTo(ImplicitValues, MaxImplicit),
          num_beams \in 1..2, hook \in Hooks :
         LET req == Request(ids, implicit_inputs, num_beams)
             r == CreateInitialFeeds(req, hook)
         IN /\ feeds' = r.feeds
            /\ sequence_lengths' = r.sequence_lengths
            /\ create_call' = [called |-> TRUE, request |-> req, hook |-> hook,
                               session_state |-> session_state_, outcome |-> r.outcome,
                               status |-> r.status, hook_calls |-> r.hook_calls]
    /\ UNCHANGED <<subgraph_inputs, subgraph_outputs, num_subgraph_inputs, num_subgraph_outputs,
                   num_layers, num_heads, head_size, hidden_size, is_output_float16_,
                   session_state_, validate_call>>

Next == CallValidate \/ Setup \/ CallCreateInitialFeeds

Spec == Init /\ [][Next]_vars

\* ---------------------------------------------------------------- properties

nin == Len(subgraph_inputs)

nout == Len(subgraph_outputs)

Failed(st) == st.code = "FAIL"

WrongInputCount(st) == Failed(st) /\ st.msg = "expect 3 inputs, got:"

WrongOutputCount(st) ==
    /\ Failed(st)
    /\ st.msg \in {"expect >=6 outputs, got:", "number of outputs expected to be 2 + 4 * layers, got:"}

UnsupportedDataType(st) ==
    /\ Failed(st)
    /\ st.msg \in {"subgraph input 0 (input_ids) shall have int32 type",
                   "subgraph input 1 (position_ids) shall have int32 type",
                   "subgraph input 2 (position_ids) shall have int32 type",
                   "subgraph output 0 (logits) shall be float or float16 data type"}

\* The seven fixed positions in the order of the contract table: what each
\* must be named and the text that cites it.
FixedPositions ==
    <<[io |-> "input", pos |-> 0, name |-> "encoder_input_ids",
       text |-> "subgraph input 0 shall be named as encoder_input_ids, got: "],
      [io |-> "input", pos |-> 1, name |-> "encoder_attention_mask",
       text |-> "subgraph input 1 shall be named as encoder_attention_mask, got: "],
      [io |-> "input", pos |-> 2, name |-> "decoder_input_ids",
       text |-> "subgraph input 2 shall be named as decoder_input_ids, got: "],
      [io |-> "output", pos |-> 0, name |-> "logits",
       text |-> "subgraph output 0 shall be named as logits, got: "],
      [io |-> "output", pos |-> 1, name |-> "encoder_hidden_states",
       text |-> "subgraph output 1 shall be named as encoder_hidden_states, got: "],
      [io |-> "output", pos |-> 2, name |-> "present_key_self_0",
       text |-> "subgraph output 2 shall be named as present_key_self_0, got: "],
      [io |-> "output", pos |-> 3, name |-> "present_value_self_0",
       text |-> "subgraph output 3 shall be named as present_value_self_0, got: "]>>

Declared(p) == IF p.io = "input" THEN subgraph_inputs[p.pos + 1] ELSE subgraph_outputs[p.pos + 1]

Layered == \E L \in 1..MaxOutputs : nout = 2 + 4 * L

CountsValid == nin = 3 /\ Layered

Misnamed(k) == Declared(FixedPositions[k]).name # FixedPositions[k].name

NamesValid == \A k \in 1..7 : ~Misnamed(k)

ShapesAcceptable == GetParameters(subgraph_outputs[3].shape, subgraph_outputs[1].shape).status.code = "OK"

InputTypesValid == \A i \in 1..3 : subgraph_inputs[i].elem_type = "INT32"

OutputTypeValid == subgraph_outputs[1].elem_type \in {"FLOAT", "FLOAT16"}

\* C1: a signature of 3 inputs and 2 + 4L outputs (L >= 1) with acceptable
\* names, element types and shapes validates, and num_layers is L afterwards.
C1_ValidSignatureYieldsLayers ==
    (validate_call.called /\ CountsValid /\ NamesValid /\ ShapesAcceptable
        /\ InputTypesValid /\ OutputTypeValid)
    => /\ validate_call.status = StatusOK
       /\ \A L \in 1..MaxOutputs : nout = 2 + 4 * L => num_layers = L

C1_Witness ==
    /\ validate_call.called /\ validate_call.status = StatusOK
    /\ nout = 10 /\ num_layers = 2

\* C2: any number of inputs but 3 is refused as a wrong input count; with 3
\* inputs, any number of outputs below 6 or not of the form 2 + 4L is
\* refused as a wrong output count.
C2_WrongCountsRefused ==
    validate_call.called
    => /\ nin # 3 => WrongInputCount(validate_call.status)
       /\ (nin = 3 /\ ~Layered) => WrongOutputCount(validate_call.status)

C2_Witness ==
    /\ validate_call.called /\ nin = 3 /\ nout = 8
    /\ WrongOutputCount(validate_call.status)

\* C3: with valid counts, a fixed position that is the first to carry another
\* name than the contract's makes Validate fail with the message that cites
\* that position and the expected name, followed by the name found.
C3_NameMismatchCitesPosition ==
    (validate_call.called /\ CountsValid)
    => \A k \in 1..7 :
          (Misnamed(k) /\ \A h \in 1..(k - 1) : ~Misnamed(h))
          => validate_call.status
                = MakeFail(FixedPositions[k].text, -1, Declared(FixedPositions[k]).name)

C3_Witness ==
    /\ validate_call.called /\ CountsValid
    /\ Misnamed(7) /\ \A h \in 1..6 : ~Misnamed(h)
    /\ validate_call.status.got_name = "logits"

\* C4 as stated: with valid counts and names, a wrong element type always
\* yields the unsupported-data-type error.
C4_Original ==
    (validate_call.called /\ CountsValid /\ NamesValid /\ ~(InputTypesValid /\ OutputTypeValid))
    => UnsupportedDataType(validate_call.status)

\* C4 (amended): with valid counts, names and shapes, an input that is not
\* int32 or an output 0 that is neither float nor float16 yields the
\* unsupported-data-type error; and after a successful Validate the flag
\* is_output_float16_ is true exactly when output 0 is float16.
C4_WrongTypeRefused ==
    /\ (validate_call.called /\ CountsValid /\ NamesValid /\ ShapesAcceptable
          /\ ~(InputTypesValid /\ OutputTypeValid))
       => UnsupportedDataType(validate_call.status)
    /\ (validate_call.called /\ validate_call.status = StatusOK)
       => (is_output_float16_ <=> subgraph_outputs[1].elem_type = "FLOAT16")

C4_Witness ==
    /\ validate_call.called /\ CountsValid /\ NamesValid /\ ShapesAcceptable
    /\ subgraph_inputs[3].elem_type = "INT64" /\ subgraph_outputs[1].elem_type = "FLOAT16"
    /\ UnsupportedDataType(validate_call.status) /\ ~is_output_float16_

\* C5 as stated: a failed Validate leaves every model parameter as it was.
C5_Original ==
    (validate_call.called /\ Failed(validate_call.status))
    => Parameters = validate_call.before

\* C5 (amended): a Validate that fails a count or name check leaves every
\* model parameter as it was; one that fails in parameter extraction leaves
\* num_layers as it was; any failed Validate leaves is_output_float16_ as it
\* was.  (A failed element-type check comes after the parameters are saved.)
C5_FailureFrame ==
    (validate_call.called /\ Failed(validate_call.status))
    => /\ is_output_float16_ = validate_call.before.is_output_float16_
       /\ ~UnsupportedDataType(validate_call.status)
          => num_layers = validate_call.before.num_layers
       /\ (WrongInputCount(validate_call.status) \/ WrongOutputCount(validate_call.status)
             \/ \E k \in 1..7 : validate_call.status.msg = FixedPositions[k].text)
          => Parameters = validate_call.before

C5_Witness ==
    /\ validate_call.called /\ UnsupportedDataType(validate_call.status)
    /\ num_layers = 1 /\ validate_call.before.num_layers = 0
    /\ ~is_output_float16_

CalledUnbound == create_call.called /\ create_call.session_state = "null"

CalledBound == create_call.called /\ create_call.session_state = "bound"

CallLeftBuffers ==
    /\ create_call.hook_calls = <<>>
    /\ feeds = create_call.request.feeds
    /\ sequence_lengths = create_call.request.sequence_lengths

\* C6 as stated: CreateInitialFeeds before Setup returns an error Status.
C6_Original ==
    CalledUnbound
    => /\ create_call.outcome = "returned" /\ Failed(create_call.status)
       /\ CallLeftBuffers

\* C6 (amended): CreateInitialFeeds on a subgraph whose session state is
\* absent fails by the exception ORT_ENFORCE throws, not by a returned
\* Status, whatever the other arguments; no hook is invoked and the feeds
\* and sequence_lengths are as the caller passed them.
C6_EnforceBeforeSetup ==
    CalledUnbound
    => /\ create_call.outcome = "thrown"
       /\ create_call.status.msg = "Setup must be called before CreateInitialFeeds"
       /\ CallLeftBuffers

C6_Witness ==
    /\ CalledUnbound /\ create_call.outcome = "thrown"
    /\ Len(create_call.request.implicit_inputs) = 2
    /\ create_call.hook.create = "OK"

Succeeded == CalledBound /\ create_call.outcome = "returned" /\ create_call.status = StatusOK

\* C7: after a successful CreateInitialFeeds with n implicit inputs the feeds
\* are 3 + n long: the expanded encoder_input_ids, encoder_attention_mask and
\* decoder_input_ids, then the implicit inputs as and in the order given.
C7_FeedsLayout ==
    Succeeded
    => LET imp == create_call.request.implicit_inputs
           rows == Expand(create_call.request.encoder_input_ids.rows, create_call.request.num_beams)
       IN /\ Len(feeds) = 3 + Len(imp)
          /\ feeds[1] = OrtValue("encoder_input_ids", rows)
          /\ feeds[2] = OrtValue("encoder_attention_mask", rows)
          /\ feeds[3].holds = "decoder_input_ids"
          /\ \A k \in 1..Len(imp) : feeds[3 + k] = imp[k]

C7_Witness ==
    /\ Succeeded
    /\ Len(create_call.request.implicit_inputs) = 2
    /\ create_call.request.implicit_inputs[1] # create_call.request.implicit_inputs[2]
    /\ Len(feeds) = 5

IsPrefix(a, b) == Len(a) <= Len(b) /\ \A k \in 1..Len(a) : a[k] = b[k]

NoImplicitInFeeds == \A k \in 1..Len(feeds) : feeds[k] \notin ImplicitValues

\* C8: the expansion hook is invoked before the assembly hook; the error of a
\* failing hook is the result of CreateInitialFeeds; after a failed expansion
\* the assembly hook is not invoked, and after either failure no implicit
\* input is in the feeds.
C8_HookErrorsPropagate ==
    CalledBound
    => /\ IsPrefix(create_call.hook_calls, <<"create_encoder_inputs_func", "add_to_feeds_func">>)
       /\ create_call.hook_calls # <<>>
       /\ create_call.hook.create # "OK"
          => /\ create_call.outcome = "returned"
             /\ create_call.status = HookStatus(create_call.hook.create)
             /\ create_call.hook_calls = <<"create_encoder_inputs_func">>
             /\ NoImplicitInFeeds
       /\ (create_call.hook.create = "OK" /\ create_call.hook.add # "OK")
          => /\ create_call.outcome = "returned"
             /\ create_call.status = HookStatus(create_call.hook.add)
             /\ NoImplicitInFeeds

C8_Witness ==
    /\ CalledBound /\ create_call.hook.add = "DeviceMismatchError" /\ create_call.hook.placed = 2
    /\ create_call.status = HookStatus("DeviceMismatchError")
    /\ Len(create_call.request.implicit_inputs) = 2 /\ Len(feeds) = 2

\* The checks of the contract in their order: whether the declared signature
\* fails the k-th, and the text of its error.
FailsCheck(k) ==
    CASE k = 1 -> nin # 3
      [] k = 2 -> nout < 6
      [] k = 3 -> ~Layered
      [] k \in 4..10 -> CountsValid /\ Misnamed(k - 3)
      [] k = 11 -> CountsValid /\ ~ShapesAcceptable
      [] k \in 12..14 -> CountsValid /\ subgraph_inputs[k - 11].elem_type # "INT32"
      [] OTHER -> CountsValid /\ ~OutputTypeValid

TextOfCheck(k) ==
    CASE k = 1 -> "expect 3 inputs, got:"
      [] k = 2 -> "expect >=6 outputs, got:"
      [] k = 3 -> "number of outputs expected to be 2 + 4 * layers, got:"
      [] k \in 4..10 -> FixedPositions[k - 3].text
      [] k = 11 -> "ShapeInferenceError"
      [] k = 12 -> "subgraph input 0 (input_ids) shall have int32 type"
      [] k = 13 -> "subgraph input 1 (position_ids) shall have int32 type"
      [] k = 14 -> "subgraph input 2 (position_ids) shall have int32 type"
      [] OTHER -> "subgraph output 0 (logits) shall be float or float16 data type"

\* C9: Validate reports the first check, in the order input count, output
\* count, names of inputs 0..2, names of outputs 0..3, parameter extraction,
\* types of inputs 0..2, type of output 0, that the signature fails, and
\* succeeds when it fails none.
C9_FirstFailingCheckReported ==
    validate_call.called
    => /\ (\A k \in 1..15 : ~FailsCheck(k)) => validate_call.status = StatusOK
       /\ \A k \in 1..15 :
             (FailsCheck(k) /\ \A h \in 1..(k - 1) : ~FailsCheck(h))
             => Failed(validate_call.status) /\ validate_call.status.msg = TextOfCheck(k)

C9_Witness ==
    /\ validate_call.called /\ CountsValid /\ NamesValid
    /\ ~ShapesAcceptable /\ ~InputTypesValid
    /\ validate_call.status.msg = "ShapeInferenceError"

\* C10: every element Validate reads lies within the list passed, and a list
\* too short for the fixed positions is refused by a count check before any
\* element is read.
C10_ReadsInRange ==
    validate_call.called
    => /\ \A r \in validate_call.reads : r[2] < (IF r[1] = "input" THEN nin ELSE nout)
       /\ (nin < 3 \/ nout < 4)
          => /\ validate_call.reads = {}
             /\ WrongInputCount(validate_call.status) \/ WrongOutputCount(validate_call.status)

C10_Witness ==
    /\ validate_call.called /\ nin = 3 /\ nout = 2
    /\ validate_call.reads = {}
    /\ WrongOutputCount(validate_call.status)

====
